---- MODULE Spec2Model ----
(***************************************************************************)
(* State-machine model of todo_gui_app.py: the LoginWindow (credential     *)
(* store, login, signup, mode toggle), main() and the TodoGUIApp task      *)
(* handlers (add, edit, mark done / pending, delete with renumbering,      *)
(* filters, logout) together with the two JSON files they read and write.  *)
(*                                                                         *)
(* Text is modelled as a sequence of one-character strings so that         *)
(* str.strip(), len() and the Treeview's string-to-int conversion are      *)
(* computed rather than assumed.                                           *)
(***************************************************************************)
EXTENDS Integers, Sequences, FiniteSets, TLC

(***************************************************************************)
(* Bounds of the model.                                                    *)
(***************************************************************************)
MaxTasks == 3
MaxTime == 1
MaxFaults == 1

(***************************************************************************)
(* Program constants.                                                      *)
(***************************************************************************)
MinUsernameLen == 3
MinPasswordLen == 4
PreviewLimit == 5

None == <<"None">>
NoFilter == "None"

(***************************************************************************)
(* Inputs the user can type.                                               *)
(***************************************************************************)
UsernameInputs ==
    { <<" ">>, <<"a", "b">>, <<" ", "a", "b">>, <<"a", "b", "c", " ">>, <<"b", "o", "b">> }

PasswordInputs ==
    { <<>>, <<"p", "q", "p">>, <<"p", "q", "p", "q">>, <<"q", "p", "q", "p">> }

NameInputs == { <<>>, <<" ">>, <<"a">>, <<" ", "a", " ">>, <<"7">> }

Timestamps == 1..MaxTime

WriteOutcomes == {"ok", "fail_open", "fail_partial"}

(***************************************************************************)
(* str.strip(): leading and trailing whitespace removed.                   *)
(***************************************************************************)
IsSpace(c) == c = " "

RECURSIVE LStrip(_)
LStrip(s) == IF s # <<>> /\ IsSpace(Head(s)) THEN LStrip(Tail(s)) ELSE s

RECURSIVE RStrip(_)
RStrip(s) ==
    IF s # <<>> /\ IsSpace(s[Len(s)]) THEN RStrip(SubSeq(s, 1, Len(s) - 1)) ELSE s

\* Mutant of Strip: nothing is removed.
StripNot(s) == s

Strip(s) == RStrip(LStrip(s))

(***************************************************************************)
(* hashlib.sha256(password.encode()).hexdigest(): a deterministic digest   *)
(* of the characters, modelled as a polynomial hash of the code points     *)
(* (collision-free on PasswordInputs).                                     *)
(***************************************************************************)
Code(c) == CASE c = "p" -> 112 [] c = "q" -> 113 [] OTHER -> 32

RECURSIVE Digest(_, _)
Digest(s, acc) ==
    IF s = <<>> THEN acc ELSE Digest(Tail(s), (acc * 31 + Code(Head(s))) % 65521)

hash_password(password) == Digest(password, 7)

(***************************************************************************)
(* tkinter.ttk._convert_stringval, applied by Treeview.item() to every     *)
(* cell it returns: text that int() accepts comes back as an int.          *)
(***************************************************************************)
Digits == {"0", "1", "2", "3", "4", "5", "6", "7", "8", "9"}

DigitVal(c) ==
    CASE c = "0" -> 0 [] c = "1" -> 1 [] c = "2" -> 2 [] c = "3" -> 3 [] c = "4" -> 4
      [] c = "5" -> 5 [] c = "6" -> 6 [] c = "7" -> 7 [] c = "8" -> 8 [] OTHER -> 9

IsIntText(s) == s # <<>> /\ \A i \in 1..Len(s) : s[i] \in Digits

RECURSIVE IntOf(_, _)
IntOf(s, acc) == IF s = <<>> THEN acc ELSE IntOf(Tail(s), acc * 10 + DigitVal(Head(s)))

ConvertStringval(s) ==
    IF IsIntText(s) THEN [isInt |-> TRUE, int |-> IntOf(s, 0), str |-> <<>>]
    ELSE [isInt |-> FALSE, int |-> 0, str |-> s]

VARIABLES
    pc,             \* where the program is: login window, launch, app, edit dialog, ended
    is_signup,      \* LoginWindow.is_signup
    users,          \* LoginWindow.users: username -> [password, created_at]
    current_user,   \* LoginWindow.current_user
    usersFile,      \* users.json
    username,       \* TodoGUIApp.username
    tasks,          \* TodoGUIApp.tasks
    current_filter, \* TodoGUIApp.current_filter
    tree,           \* rows of TodoGUIApp.task_tree
    stats,          \* what TodoGUIApp.stats_label shows
    edit_idx,       \* position in tasks of the task the open edit dialog holds
    taskFiles,      \* tasks_<username>.txt, per username
    faults,         \* storage write failures so far
    last            \* the last handler run, the last dialog it showed, its write

vars == <<pc, is_signup, users, current_user, usersFile, username, tasks,
          current_filter, tree, stats, edit_idx, taskFiles, faults, last>>

(***************************************************************************)
(* Files.  A file is absent, holds well-formed JSON ("ok", with the value  *)
(* that was dumped), holds text json.load rejects ("corrupt") or cannot be *)
(* opened for reading ("unreadable").                                      *)
(***************************************************************************)
FileConds == {"absent", "unreadable", "corrupt"}

NoFile(cond) == [cond |-> cond, data |-> <<>>]

\* Mutant of WriteFile: a write that cannot open the file empties it all the same.
WriteFileTruncates(file, data, w) ==
    IF w = "ok" THEN [cond |-> "ok", data |-> data] ELSE NoFile("corrupt")

\* open(..., 'w') followed by json.dump: the write completes, open() raises
\* (file untouched), or the dump raises after open() truncated the file.
WriteFile(file, data, w) ==
    CASE w = "ok" -> [cond |-> "ok", data |-> data]
      [] w = "fail_open" -> file
      [] OTHER -> NoFile("corrupt")

WriteChoices == IF faults < MaxFaults THEN WriteOutcomes ELSE {"ok"}

FaultsAfter(w) == IF w = "ok" THEN faults ELSE faults + 1

Shown(op, msg, wrote) == [op |-> op, msg |-> msg, wrote |-> wrote]

(***************************************************************************)
(* LoginWindow                                                             *)
(***************************************************************************)
\* load_users: {} unless the file exists and parses; every exception is swallowed.
load_users(file) == IF file.cond = "ok" THEN file.data ELSE <<>>

\* Mutant of LoginOutcome: the password is not compared.
LoginOutcomeAnyPassword(uname, password, us) ==
    IF uname = <<>> \/ password = <<>> THEN "Please enter both username and password!"
    ELSE IF uname \notin DOMAIN us THEN "Not Found"
    ELSE "Welcome"

\* The dialog login() ends in, by its chain of checks.
LoginOutcome(uname, password, us) ==
    IF uname = <<>> \/ password = <<>> THEN "Please enter both username and password!"
    ELSE IF uname \notin DOMAIN us THEN "Not Found"
    ELSE IF us[uname].password # hash_password(password) THEN "Incorrect password!"
    ELSE "Welcome"

\* Mutant of RegisterOutcome: the username is looked up before the passwords
\* are checked.
RegisterOutcomeLookupFirst(signup, uname, password, confirm, us) ==
    IF ~signup THEN "Please use the Sign Up page!"
    ELSE IF uname = <<>> THEN "Please enter username!"
    ELSE IF Len(uname) < MinUsernameLen THEN "Username must be at least 3 characters!"
    ELSE IF uname \in DOMAIN us THEN "Username already exists!"
    ELSE IF password = <<>> THEN "Please enter password!"
    ELSE IF Len(password) < MinPasswordLen THEN "Password must be at least 4 characters!"
    ELSE IF confirm = <<>> THEN "Please confirm your password!"
    ELSE IF password # confirm THEN "Passwords do not match!"
    ELSE "Account created!"

\* Mutant of RegisterOutcome: a username already present is accepted again.
RegisterOutcomeNoLookup(signup, uname, password, confirm, us) ==
    IF ~signup THEN "Please use the Sign Up page!"
    ELSE IF uname = <<>> THEN "Please enter username!"
    ELSE IF Len(uname) < MinUsernameLen THEN "Username must be at least 3 characters!"
    ELSE IF password = <<>> THEN "Please enter password!"
    ELSE IF Len(password) < MinPasswordLen THEN "Password must be at least 4 characters!"
    ELSE IF confirm = <<>> THEN "Please confirm your password!"
    ELSE IF password # confirm THEN "Passwords do not match!"
    ELSE "Account created!"

\* The dialog register() ends in, by its chain of checks.
RegisterOutcome(signup, uname, password, confirm, us) ==
    IF ~signup THEN "Please use the Sign Up page!"
    ELSE IF uname = <<>> THEN "Please enter username!"
    ELSE IF Len(uname) < MinUsernameLen THEN "Username must be at least 3 characters!"
    ELSE IF password = <<>> THEN "Please enter password!"
    ELSE IF Len(password) < MinPasswordLen THEN "Password must be at least 4 characters!"
    ELSE IF confirm = <<>> THEN "Please confirm your password!"
    ELSE IF password # confirm THEN "Passwords do not match!"
    ELSE IF uname \in DOMAIN us THEN "Username already exists!"
    ELSE "Account created!"

\* Mutant of NewAccount: the mapping is replaced by the new account alone.
NewAccountOnly(us, uname, password, now) ==
    [u \in {uname} |-> [password |-> hash_password(password), created_at |-> now]]

\* self.users[username] = {'password': ..., 'created_at': ...}
NewAccount(us, uname, password, now) ==
    [u \in DOMAIN us \cup {uname} |->
        IF u = uname THEN [password |-> hash_password(password), created_at |-> now]
        ELSE us[u]]

AppVars == <<username, tasks, current_filter, tree, stats, edit_idx, taskFiles>>

LoginVars == <<is_signup, users, current_user, usersFile>>

toggle_mode ==
    /\ pc = "login"
    /\ is_signup' = ~is_signup
    /\ last' = Shown("toggle_mode", "", "none")
    /\ UNCHANGED <<pc, users, current_user, usersFile, faults>>
    /\ UNCHANGED AppVars

\* login, with the text of the two fields and the answer to "Create new
\* account?".  The Sign In button and <Return> in the password field exist in
\* login mode only.
login(raw, password, yes) ==
    /\ pc = "login"
    /\ ~is_signup
    /\ LET uname == Strip(raw)
           msg == LoginOutcome(uname, password, users)
       IN /\ is_signup' = (msg = "Not Found" /\ yes)
          /\ current_user' = IF msg = "Welcome" THEN uname ELSE current_user
          /\ pc' = IF msg = "Welcome" THEN "launch" ELSE pc
          /\ last' = Shown("login", msg, "none")
    /\ UNCHANGED <<users, usersFile, faults>>
    /\ UNCHANGED AppVars

\* register, with the text of the three fields, the clock and the outcome of
\* the write.  The Sign Up button and <Return> in the confirm field exist in
\* signup mode only.
register(raw, password, confirm, now, w) ==
    /\ pc = "login"
    /\ is_signup
    /\ LET uname == Strip(raw)
           msg == RegisterOutcome(is_signup, uname, password, confirm, users)
       IN IF msg = "Account created!"
          THEN /\ w \in WriteChoices
               /\ users' = NewAccount(users, uname, password, now)
               /\ usersFile' = WriteFile(usersFile, users', w)
               /\ faults' = FaultsAfter(w)
               /\ is_signup' = FALSE
               /\ last' = Shown("register", msg, w)
          ELSE /\ last' = Shown("register", msg, "none")
               /\ UNCHANGED <<users, usersFile, faults, is_signup>>
    /\ UNCHANGED <<pc, current_user>>
    /\ UNCHANGED AppVars

\* The login window is closed without a login: its mainloop returns.
close_login ==
    /\ pc = "login"
    /\ pc' = "launch"
    /\ last' = Shown("close_login", "", "none")
    /\ UNCHANGED <<is_signup, users, current_user, usersFile, faults>>
    /\ UNCHANGED AppVars

(***************************************************************************)
(* TodoGUIApp: the task list, its view and its file.                       *)
(***************************************************************************)
\* load_tasks: [] when the file is absent or json.load rejects it; the value
\* read otherwise.  Only JSONDecodeError and FileNotFoundError are caught.
load_tasks(file) == IF file.cond = "ok" THEN file.data ELSE <<>>

LoadRaises(file) == file.cond = "unreadable"

\* Mutant of SelectTasks: the filter is ignored.
SelectTasksAll(ts, flt) == ts

\* The tasks refresh_task_list inserts: those whose status is the active
\* filter, all of them when there is none.
RECURSIVE SelectTasks(_, _)
SelectTasks(ts, flt) ==
    IF ts = <<>> THEN <<>>
    ELSE IF flt = NoFilter \/ Head(ts).status = flt
         THEN <<Head(ts)>> \o SelectTasks(Tail(ts), flt)
         ELSE SelectTasks(Tail(ts), flt)

\* Mutant of RowOf: the row carries the id the task had before a renumbering.
RowOfOldId(task) ==
    [id |-> task.id + 1,
     status |-> IF task.status = "Done" THEN "Done" ELSE "Pending",
     name |-> ConvertStringval(task.name),
     created_at |-> task.created_at]

\* One Treeview row, as Treeview.item(...)['values'] gives it back.
RowOf(task) ==
    [id |-> task.id,
     status |-> IF task.status = "Done" THEN "Done" ELSE "Pending",
     name |-> ConvertStringval(task.name),
     created_at |-> task.created_at]

\* refresh_task_list: the rows shown for the active filter, in sequence order.
refresh_task_list(ts, flt) ==
    LET shown == SelectTasks(ts, flt) IN [i \in 1..Len(shown) |-> RowOf(shown[i])]

\* Mutant of update_statistics: every task is counted as completed.
update_statisticsAllDone(ts) ==
    [total |-> Len(ts), completed |-> Len(ts), pending |-> 0,
     completion_rate |-> IF Len(ts) > 0 THEN 1000 ELSE 0]

\* update_statistics: the four numbers of the statistics label.  The rate is
\* kept as the label prints it ("{:.1f}"), in tenths of a percent.
update_statistics(ts) ==
    LET total_tasks == Len(ts)
        completed_tasks == Cardinality({i \in 1..Len(ts) : ts[i].status = "Done"})
        pending_tasks == total_tasks - completed_tasks
    IN [total |-> total_tasks,
        completed |-> completed_tasks,
        pending |-> pending_tasks,
        completion_rate |->
            IF total_tasks > 0
            THEN (completed_tasks * 2000 + total_tasks) \div (2 * total_tasks)
            ELSE 0]

\* max([task['id'] for task in self.tasks], default=0)
RECURSIVE MaxId(_)
MaxId(ts) ==
    IF ts = <<>> THEN 0
    ELSE LET m == MaxId(Tail(ts)) IN IF Head(ts).id > m THEN Head(ts).id ELSE m

\* Mutant of NewTask: the new id repeats the largest id.
NewTaskSameId(ts, name, now) ==
    [id |-> MaxId(ts), name |-> name, status |-> "Not Done", created_at |-> now]

NewTask(ts, name, now) ==
    [id |-> MaxId(ts) + 1, name |-> name, status |-> "Not Done", created_at |-> now]

\* Position of the first task with this id, 0 when there is none.
RECURSIVE FindFrom(_, _, _)
FindFrom(ts, task_id, i) ==
    IF i > Len(ts) THEN 0
    ELSE IF ts[i].id = task_id THEN i ELSE FindFrom(ts, task_id, i + 1)

FindTask(ts, task_id) == FindFrom(ts, task_id, 1)

\* Mutant of RemoveIds: the tasks that follow a removed one are dropped too.
RECURSIVE RemoveFromFirst(_, _)
RemoveFromFirst(ts, id_set) ==
    IF ts = <<>> THEN <<>>
    ELSE IF Head(ts).id \in id_set THEN <<>>
         ELSE <<Head(ts)>> \o RemoveFromFirst(Tail(ts), id_set)

\* [task for task in self.tasks if task['id'] not in id_set]
RECURSIVE RemoveIds(_, _)
RemoveIds(ts, id_set) ==
    IF ts = <<>> THEN <<>>
    ELSE IF Head(ts).id \in id_set THEN RemoveIds(Tail(ts), id_set)
         ELSE <<Head(ts)>> \o RemoveIds(Tail(ts), id_set)

\* Mutant of Renumber: the survivors keep their ids.
RenumberNot(ts) == ts

\* for i, task in enumerate(self.tasks, 1): task['id'] = i
Renumber(ts) == [i \in 1..Len(ts) |-> [ts[i] EXCEPT !.id = i]]

\* The selected rows, in tree order.
RECURSIVE SelectedRows(_, _, _)
SelectedRows(rows, sel, i) ==
    IF i > Len(rows) THEN <<>>
    ELSE IF i \in sel THEN <<rows[i]>> \o SelectedRows(rows, sel, i + 1)
         ELSE SelectedRows(rows, sel, i + 1)

\* What the user can select: any set of the rows shown.
Selections == SUBSET (1..Len(tree))

\* Mutant of save_tasks: nothing is written.
save_tasksNot(ts, w) ==
    /\ w \in WriteChoices
    /\ UNCHANGED taskFiles
    /\ faults' = faults

\* save_tasks: the whole sequence is dumped to the user's file.
save_tasks(ts, w) ==
    /\ w \in WriteChoices
    /\ taskFiles' = [taskFiles EXCEPT ![username] = WriteFile(@, ts, w)]
    /\ faults' = FaultsAfter(w)

\* main(): after the login window's mainloop returns, open the task window for
\* the logged-in user, if there is one (TodoGUIApp.__init__).
main ==
    /\ pc = "launch"
    /\ IF current_user = None
       THEN /\ pc' = "exited"
            /\ last' = Shown("main", "", "none")
            /\ UNCHANGED AppVars
       ELSE IF LoadRaises(taskFiles[current_user])
       THEN /\ pc' = "exited"
            /\ last' = Shown("main", "PermissionError", "none")
            /\ UNCHANGED AppVars
       ELSE /\ pc' = "app"
            /\ username' = current_user
            /\ tasks' = load_tasks(taskFiles[current_user])
            /\ current_filter' = NoFilter
            /\ tree' = refresh_task_list(tasks', NoFilter)
            /\ stats' = update_statistics(tasks')
            /\ last' = Shown("main", "", "none")
            /\ UNCHANGED <<edit_idx, taskFiles>>
    /\ UNCHANGED <<faults>>
    /\ UNCHANGED LoginVars

\* add_task, with the text of the entry, the clock and the outcome of the write.
add_task(raw, now, w) ==
    /\ pc = "app"
    /\ LET task_name == Strip(raw) IN
       IF task_name = <<>>
       THEN /\ last' = Shown("add_task", "Please enter a task name!", "none")
            /\ UNCHANGED <<tasks, taskFiles, faults, current_filter, tree, stats>>
       ELSE /\ Len(tasks) < MaxTasks
            /\ tasks' = Append(tasks, NewTask(tasks, task_name, now))
            /\ save_tasks(tasks', w)
            /\ current_filter' = NoFilter
            /\ tree' = refresh_task_list(tasks', current_filter')
            /\ stats' = update_statistics(tasks')
            /\ last' = Shown("add_task", "added successfully!", w)
    /\ UNCHANGED <<pc, username, edit_idx>>
    /\ UNCHANGED LoginVars

\* edit_task, up to the opening of the (modal) edit dialog, for a selection.
edit_task(sel) ==
    /\ pc = "app"
    /\ sel \in Selections
    /\ IF sel = {}
       THEN /\ last' = Shown("edit_task", "Please select a task to edit!", "none")
            /\ UNCHANGED <<pc, edit_idx>>
       ELSE IF Cardinality(sel) > 1
       THEN /\ last' = Shown("edit_task", "Please select only one task to edit!", "none")
            /\ UNCHANGED <<pc, edit_idx>>
       ELSE LET task_id == SelectedRows(tree, sel, 1)[1].id
                i == FindTask(tasks, task_id)
            IN IF i = 0
               THEN /\ last' = Shown("edit_task", "Task not found!", "none")
                    /\ UNCHANGED <<pc, edit_idx>>
               ELSE /\ pc' = "edit"
                    /\ edit_idx' = i
                    /\ last' = Shown("edit_task", "", "none")
    /\ UNCHANGED <<username, tasks, current_filter, tree, stats, taskFiles, faults>>
    /\ UNCHANGED LoginVars

\* Mutant of Rename: the first task is renamed, whichever was selected.
RenameFirst(ts, i, new_name) == [ts EXCEPT ![1].name = new_name]

\* task['name'] = new_name, on the task the dialog was opened for.
Rename(ts, i, new_name) == [ts EXCEPT ![i].name = new_name]

\* save_edit: the Save button (or <Return>) of the edit dialog.
save_edit(raw, w) ==
    /\ pc = "edit"
    /\ LET new_name == Strip(raw) IN
       IF new_name = <<>>
       THEN /\ last' = Shown("save_edit", "Task name cannot be empty!", "none")
            /\ UNCHANGED <<pc, edit_idx, tasks, taskFiles, faults, tree, stats>>
       ELSE /\ tasks' = Rename(tasks, edit_idx, new_name)
            /\ save_tasks(tasks', w)
            /\ tree' = refresh_task_list(tasks', current_filter)
            /\ stats' = update_statistics(tasks')
            /\ pc' = "app"
            /\ edit_idx' = 0
            /\ last' = Shown("save_edit", "Task updated successfully!", w)
    /\ UNCHANGED <<username, current_filter>>
    /\ UNCHANGED LoginVars

\* The Cancel button of the edit dialog: edit_window.destroy.
cancel_edit ==
    /\ pc = "edit"
    /\ pc' = "app"
    /\ edit_idx' = 0
    /\ last' = Shown("cancel_edit", "", "none")
    /\ UNCHANGED <<username, tasks, current_filter, tree, stats, taskFiles, faults>>
    /\ UNCHANGED LoginVars

\* Mutant of MarkDone: the list is saved whether or not the status changed.
MarkDoneSavesAlways(task_id, w) ==
    LET i == FindTask(tasks, task_id) IN
    IF i = 0
    THEN /\ last' = Shown("mark_task_done", "", "none")
         /\ UNCHANGED <<tasks, taskFiles, faults, tree, stats>>
    ELSE /\ tasks' = [tasks EXCEPT ![i].status = "Done"]
         /\ save_tasks(tasks', w)
         /\ tree' = refresh_task_list(tasks', current_filter)
         /\ stats' = update_statistics(tasks')
         /\ last' = Shown("mark_task_done",
                          IF tasks[i].status = "Done" THEN "Task is already marked as done!"
                          ELSE "marked as done!", w)

\* The loop of mark_task_done over self.tasks, for the id read from the row.
MarkDone(task_id, w) ==
    LET i == FindTask(tasks, task_id) IN
    IF i = 0
    THEN /\ last' = Shown("mark_task_done", "", "none")
         /\ UNCHANGED <<tasks, taskFiles, faults, tree, stats>>
    ELSE IF tasks[i].status = "Done"
    THEN /\ last' = Shown("mark_task_done", "Task is already marked as done!", "none")
         /\ UNCHANGED <<tasks, taskFiles, faults, tree, stats>>
    ELSE /\ tasks' = [tasks EXCEPT ![i].status = "Done"]
         /\ save_tasks(tasks', w)
         /\ tree' = refresh_task_list(tasks', current_filter)
         /\ stats' = update_statistics(tasks')
         /\ last' = Shown("mark_task_done", "marked as done!", w)

mark_task_done(sel, w) ==
    /\ pc = "app"
    /\ sel \in Selections
    /\ IF sel = {}
       THEN /\ last' = Shown("mark_task_done", "Please select a task to mark as done!", "none")
            /\ UNCHANGED <<tasks, taskFiles, faults, tree, stats>>
       ELSE MarkDone(SelectedRows(tree, sel, 1)[1].id, w)
    /\ UNCHANGED <<pc, username, current_filter, edit_idx>>
    /\ UNCHANGED LoginVars

\* Mutant of MarkPending: every task is set back to pending.
MarkPendingAll(task_id, w) ==
    LET i == FindTask(tasks, task_id) IN
    IF i = 0
    THEN /\ last' = Shown("mark_task_pending", "", "none")
         /\ UNCHANGED <<tasks, taskFiles, faults, tree, stats>>
    ELSE IF tasks[i].status = "Not Done"
    THEN /\ last' = Shown("mark_task_pending", "Task is already marked as pending!", "none")
         /\ UNCHANGED <<tasks, taskFiles, faults, tree, stats>>
    ELSE /\ tasks' = [k \in 1..Len(tasks) |-> [tasks[k] EXCEPT !.status = "Not Done"]]
         /\ save_tasks(tasks', w)
         /\ tree' = refresh_task_list(tasks', current_filter)
         /\ stats' = update_statistics(tasks')
         /\ last' = Shown("mark_task_pending", "marked as pending!", w)

\* The loop of mark_task_pending over self.tasks, for the id read from the row.
MarkPending(task_id, w) ==
    LET i == FindTask(tasks, task_id) IN
    IF i = 0
    THEN /\ last' = Shown("mark_task_pending", "", "none")
         /\ UNCHANGED <<tasks, taskFiles, faults, tree, stats>>
    ELSE IF tasks[i].status = "Not Done"
    THEN /\ last' = Shown("mark_task_pending", "Task is already marked as pending!", "none")
         /\ UNCHANGED <<tasks, taskFiles, faults, tree, stats>>
    ELSE /\ tasks' = [tasks EXCEPT ![i].status = "Not Done"]
         /\ save_tasks(tasks', w)
         /\ tree' = refresh_task_list(tasks', current_filter)
         /\ stats' = update_statistics(tasks')
         /\ last' = Shown("mark_task_pending", "marked as pending!", w)

mark_task_pending(sel, w) ==
    /\ pc = "app"
    /\ sel \in Selections
    /\ IF sel = {}
       THEN /\ last' = Shown("mark_task_pending", "Please select a task to mark as pending!", "none")
            /\ UNCHANGED <<tasks, taskFiles, faults, tree, stats>>
       ELSE MarkPending(SelectedRows(tree, sel, 1)[1].id, w)
    /\ UNCHANGED <<pc, username, current_filter, edit_idx>>
    /\ UNCHANGED LoginVars

\* ", ".join(task_names[:5]) raises TypeError when a name read back from the
\* tree is an int.
JoinRaises(rows) ==
    \E i \in 1..Len(rows) : i <= PreviewLimit /\ rows[i].name.isInt

\* The ids read from the selected rows.
SelectedIds(sel) ==
    LET rows == SelectedRows(tree, sel, 1) IN {rows[i].id : i \in 1..Len(rows)}

\* count = len(task_ids): the number of rows selected.
DeleteCount(sel) == Len(SelectedRows(tree, sel, 1))

\* The dialog "Deleted {count} task(s) successfully!".
ShownDeleted(count, wrote) ==
    [op |-> "delete_task", msg |-> "Deleted", wrote |-> wrote, count |-> count]

\* delete_task, with the selection, the answer to "Confirm Delete" and the
\* outcome of the write.
delete_task(sel, yes, w) ==
    /\ pc = "app"
    /\ sel \in Selections
    /\ IF sel = {}
       THEN /\ last' = Shown("delete_task", "Please select at least one task to delete!", "none")
            /\ UNCHANGED <<tasks, taskFiles, faults, tree, stats>>
       ELSE IF JoinRaises(SelectedRows(tree, sel, 1))
       THEN /\ last' = Shown("delete_task", "TypeError", "none")
            /\ UNCHANGED <<tasks, taskFiles, faults, tree, stats>>
       ELSE IF ~yes
       THEN /\ last' = Shown("delete_task", "Confirm Delete", "none")
            /\ UNCHANGED <<tasks, taskFiles, faults, tree, stats>>
       ELSE /\ tasks' = Renumber(RemoveIds(tasks, SelectedIds(sel)))
            /\ save_tasks(tasks', w)
            /\ tree' = refresh_task_list(tasks', current_filter)
            /\ stats' = update_statistics(tasks')
            /\ last' = ShownDeleted(DeleteCount(sel), w)
    /\ UNCHANGED <<pc, username, current_filter, edit_idx>>
    /\ UNCHANGED LoginVars

filter_done ==
    /\ pc = "app"
    /\ current_filter' = "Done"
    /\ tree' = refresh_task_list(tasks, current_filter')
    /\ last' = Shown("filter_done", "", "none")
    /\ UNCHANGED <<pc, username, tasks, stats, edit_idx, taskFiles, faults>>
    /\ UNCHANGED LoginVars

filter_pending ==
    /\ pc = "app"
    /\ current_filter' = "Not Done"
    /\ tree' = refresh_task_list(tasks, current_filter')
    /\ last' = Shown("filter_pending", "", "none")
    /\ UNCHANGED <<pc, username, tasks, stats, edit_idx, taskFiles, faults>>
    /\ UNCHANGED LoginVars

show_all_tasks ==
    /\ pc = "app"
    /\ current_filter' = NoFilter
    /\ tree' = refresh_task_list(tasks, current_filter')
    /\ last' = Shown("show_all_tasks", "", "none")
    /\ UNCHANGED <<pc, username, tasks, stats, edit_idx, taskFiles, faults>>
    /\ UNCHANGED LoginVars

\* logout: on "yes" the tasks are saved, the window destroyed and main() run
\* again, which builds a new LoginWindow (load_users, login mode, no user).
logout(yes, w) ==
    /\ pc = "app"
    /\ IF yes
       THEN /\ save_tasks(tasks, w)
            /\ pc' = "login"
            /\ users' = load_users(usersFile)
            /\ is_signup' = FALSE
            /\ current_user' = None
            /\ username' = None
            /\ tasks' = <<>>
            /\ current_filter' = NoFilter
            /\ tree' = <<>>
            /\ stats' = update_statistics(<<>>)
            /\ last' = Shown("logout", "Logout", w)
            /\ UNCHANGED <<usersFile, edit_idx>>
       ELSE /\ last' = Shown("logout", "Logout", "none")
            /\ UNCHANGED <<pc, faults>>
            /\ UNCHANGED AppVars
            /\ UNCHANGED LoginVars

\* The task window is closed: its mainloop returns and the program ends.
close_app ==
    /\ pc = "app"
    /\ pc' = "exited"
    /\ last' = Shown("close_app", "", "none")
    /\ UNCHANGED <<faults>>
    /\ UNCHANGED AppVars
    /\ UNCHANGED LoginVars

TaskUsers == {Strip(raw) : raw \in UsernameInputs}

\* The program starts in main() on a fresh installation: a LoginWindow in
\* login mode, no users.json, no task file, no task window yet.
Init ==
    /\ pc = "login"
    /\ is_signup = FALSE
    /\ usersFile = NoFile("absent")
    /\ users = load_users(usersFile)
    /\ current_user = None
    /\ username = None
    /\ tasks = <<>>
    /\ current_filter = NoFilter
    /\ tree = <<>>
    /\ stats = update_statistics(tasks)
    /\ edit_idx = 0
    /\ taskFiles = [u \in TaskUsers |-> NoFile("absent")]
    /\ faults = 0
    /\ last = Shown("init", "", "none")

\* What the one user of the whole-program specification types at the login window.
OwnerInputs == { <<"a", "b", "c", " ">> }

OwnerPasswords == { <<"p", "q", "p", "q">> }

\* Storage that never fails a write.
ReliableWrites == {"ok"}

\* The whole program, used by one person over storage that does not fail.
Next ==
    \/ toggle_mode
    \/ \E raw \in OwnerInputs, password \in OwnerPasswords, yes \in BOOLEAN :
         login(raw, password, yes)
    \/ \E raw \in OwnerInputs, password \in OwnerPasswords, confirm \in OwnerPasswords,
          now \in Timestamps, w \in ReliableWrites :
         register(raw, password, confirm, now, w)
    \/ close_login
    \/ main
    \/ \E raw \in NameInputs, now \in Timestamps, w \in ReliableWrites : add_task(raw, now, w)
    \/ \E sel \in Selections : edit_task(sel)
    \/ \E raw \in NameInputs, w \in ReliableWrites : save_edit(raw, w)
    \/ cancel_edit
    \/ \E sel \in Selections, w \in ReliableWrites : mark_task_done(sel, w)
    \/ \E sel \in Selections, w \in ReliableWrites : mark_task_pending(sel, w)
    \/ \E sel \in Selections, yes \in BOOLEAN, w \in ReliableWrites : delete_task(sel, yes, w)
    \/ filter_done
    \/ filter_pending
    \/ show_all_tasks
    \/ \E yes \in BOOLEAN, w \in ReliableWrites : logout(yes, w)
    \/ close_app

Spec == Init /\ [][Next]_vars

\* The login window with every input, and the task window opened and left
\* without touching the tasks.
NextAuth ==
    \/ toggle_mode
    \/ \E raw \in UsernameInputs, password \in PasswordInputs, yes \in BOOLEAN :
         login(raw, password, yes)
    \/ \E raw \in UsernameInputs, password \in PasswordInputs, confirm \in PasswordInputs,
          now \in Timestamps, w \in WriteOutcomes :
         register(raw, password, confirm, now, w)
    \/ close_login
    \/ main
    \/ \E yes \in BOOLEAN, w \in WriteOutcomes : logout(yes, w)
    \/ close_app

SpecAuth == Init /\ [][NextAuth]_vars

\* The signup page alone, with every input.
NextSignup ==
    \/ toggle_mode
    \/ \E raw \in UsernameInputs, password \in PasswordInputs, confirm \in PasswordInputs,
          now \in Timestamps, w \in WriteOutcomes :
         register(raw, password, confirm, now, w)

SpecSignup == Init /\ [][NextSignup]_vars

\* What is typed at the login window when one person uses the program: no
\* username, one that is too short, and theirs.
LoneUserInputs == { <<" ">>, <<"a", "b">>, <<"a", "b", "c", " ">> }

\* No password, one that is too short, and theirs.
LonePasswords == { <<>>, <<"p", "q", "p">>, <<"p", "q", "p", "q">> }

\* The whole program, used by one person, with every input and over storage
\* that can fail a write.
NextFaulty ==
    \/ toggle_mode
    \/ \E raw \in LoneUserInputs, password \in LonePasswords, yes \in BOOLEAN :
         login(raw, password, yes)
    \/ \E raw \in LoneUserInputs, password \in LonePasswords, confirm \in LonePasswords,
          now \in Timestamps, w \in WriteOutcomes :
         register(raw, password, confirm, now, w)
    \/ close_login
    \/ main
    \/ \E raw \in NameInputs, now \in Timestamps, w \in WriteOutcomes : add_task(raw, now, w)
    \/ \E sel \in Selections : edit_task(sel)
    \/ \E raw \in NameInputs, w \in WriteOutcomes : save_edit(raw, w)
    \/ cancel_edit
    \/ \E sel \in Selections, w \in WriteOutcomes : mark_task_done(sel, w)
    \/ \E sel \in Selections, w \in WriteOutcomes : mark_task_pending(sel, w)
    \/ \E sel \in Selections, yes \in BOOLEAN, w \in WriteOutcomes : delete_task(sel, yes, w)
    \/ filter_done
    \/ filter_pending
    \/ show_all_tasks
    \/ \E yes \in BOOLEAN, w \in WriteOutcomes : logout(yes, w)
    \/ close_app

SpecFaulty == Init /\ [][NextFaulty]_vars

\* Task lists the program builds: ids 1..n in order, any names, statuses, times.
TaskNames == {Strip(raw) : raw \in NameInputs} \ {<<>>}

TaskLists ==
    UNION { { [i \in 1..n |-> [id |-> i, name |-> f[i][1], status |-> f[i][2],
                               created_at |-> f[i][3]]] :
              f \in [1..n -> TaskNames \X {"Not Done", "Done"} \X Timestamps] } :
            n \in 0..MaxTasks }

\* The program started on files left by earlier runs or by anything else:
\* users.json absent, unreadable, unparsable or holding the owner's account,
\* and the owner's task file absent, unreadable, unparsable or holding a task
\* list.
OwnerAccount ==
    [u \in {<<"a", "b", "c">>} |->
        [password |-> hash_password(<<"p", "q", "p", "q">>), created_at |-> 1]]

InitLoad ==
    /\ pc = "login"
    /\ is_signup = FALSE
    /\ usersFile \in {NoFile(c) : c \in FileConds} \cup {[cond |-> "ok", data |-> OwnerAccount]}
    /\ users = load_users(usersFile)
    /\ current_user = None
    /\ username = None
    /\ tasks = <<>>
    /\ current_filter = NoFilter
    /\ tree = <<>>
    /\ stats = update_statistics(tasks)
    /\ edit_idx = 0
    /\ \E f \in {NoFile(c) : c \in FileConds} \cup {[cond |-> "ok", data |-> ts] : ts \in TaskLists} :
         taskFiles = [u \in TaskUsers |-> IF u = <<"a", "b", "c">> THEN f ELSE NoFile("absent")]
    /\ faults = 0
    /\ last = Shown("init", "", "none")

\* Signing up or in, the start of the task window, and leaving it.
NextLoad ==
    \/ toggle_mode
    \/ \E raw \in OwnerInputs, password \in OwnerPasswords, yes \in BOOLEAN :
         login(raw, password, yes)
    \/ \E raw \in OwnerInputs, password \in OwnerPasswords, confirm \in OwnerPasswords,
          now \in Timestamps, w \in ReliableWrites :
         register(raw, password, confirm, now, w)
    \/ close_login
    \/ main
    \/ \E yes \in BOOLEAN, w \in ReliableWrites : logout(yes, w)
    \/ close_app

SpecLoad == InitLoad /\ [][NextLoad]_vars

\* A task window whose rows may be out of date: they show ids 1..k whatever
\* the task list holds.
InitStale ==
    /\ pc = "app"
    /\ is_signup = FALSE
    /\ usersFile = NoFile("absent")
    /\ users = <<>>
    /\ current_user = <<"a", "b", "c">>
    /\ username = current_user
    /\ tasks \in TaskLists
    /\ current_filter = NoFilter
    /\ \E k \in 0..(MaxTasks + 1) :
         tree = [i \in 1..k |-> [id |-> i, status |-> "Pending",
                                 name |-> ConvertStringval(<<"a">>), created_at |-> 1]]
    /\ stats = update_statistics(tasks)
    /\ edit_idx = 0
    /\ taskFiles = [u \in TaskUsers |-> NoFile("absent")]
    /\ faults = 0
    /\ last = Shown("init", "", "none")

\* The status handlers and delete run on such a window.
NextStale ==
    \/ \E sel \in Selections, w \in WriteOutcomes : mark_task_done(sel, w)
    \/ \E sel \in Selections, w \in WriteOutcomes : mark_task_pending(sel, w)
    \/ \E sel \in Selections, yes \in BOOLEAN, w \in WriteOutcomes : delete_task(sel, yes, w)

SpecStale == InitStale /\ [][NextStale]_vars

(***************************************************************************)
(* Claims.                                                                 *)
(***************************************************************************)

\* C1: in every reachable state the ids of the in-memory task sequence, read
\* in sequence order, are exactly 1, 2, ..., N (N the number of tasks).
C1_DenseIds == \A i \in 1..Len(tasks) : tasks[i].id = i

\* A delete from the middle or the front has just left two tasks behind.
C1_Witness ==
    /\ last.op = "delete_task"
    /\ last.msg = "Deleted"
    /\ Len(tasks) = 2

\* The positions of the tasks a delete of id_set keeps.
Kept(ts, id_set) == {k \in 1..Len(ts) : ts[k].id \notin id_set}

\* C2: a confirmed delete of a set of ids leaves exactly the tasks whose id was
\* not in the set, in their original relative order, with ids 1..N' and with
\* name, status and created_at unchanged.
C2_DeleteRenumbers ==
    [][\A sel \in SUBSET (1..MaxTasks) :
         (delete_task(sel, TRUE, "ok") /\ last'.msg = "Deleted") =>
           LET keep == Kept(tasks, SelectedIds(sel)) IN
           /\ Len(tasks') = Cardinality(keep)
           /\ \A k \in keep :
                LET j == Cardinality({i \in keep : i <= k}) IN
                /\ tasks'[j].id = j
                /\ tasks'[j].name = tasks[k].name
                /\ tasks'[j].status = tasks[k].status
                /\ tasks'[j].created_at = tasks[k].created_at]_vars

\* A delete has just removed a task that was not the last one: a survivor moved up.
C2_Witness ==
    /\ last.op = "delete_task"
    /\ last.msg = "Deleted"
    /\ Len(tasks) >= 1
    /\ Len(tasks) < MaxTasks

\* C3: an add of a name that does not trim to empty appends one task, with id
\* (largest existing id, or 0) + 1 and status Pending, and changes no other task.
C3_AddAppends ==
    [][\A raw \in NameInputs, now \in Timestamps :
         (add_task(raw, now, "ok") /\ (\E i \in 1..Len(raw) : raw[i] # " ")) =>
           /\ Len(tasks') = Len(tasks) + 1
           /\ \A i \in 1..Len(tasks) : tasks'[i] = tasks[i]
           /\ tasks'[Len(tasks')].status = "Not Done"
           /\ \A i \in 1..Len(tasks) : tasks[i].id < tasks'[Len(tasks')].id
           /\ \/ tasks = <<>> /\ tasks'[Len(tasks')].id = 1
              \/ \E i \in 1..Len(tasks) : tasks[i].id + 1 = tasks'[Len(tasks')].id]_vars

\* An add has just appended a task to a list that already held some.
C3_Witness ==
    /\ last.op = "add_task"
    /\ last.msg = "added successfully!"
    /\ Len(tasks) >= 2

\* C4: the authenticated user becomes set only by a login whose username is in
\* the credential store and whose password hashes to the stored hash; every
\* other login outcome, every signup and every mode toggle leaves it unset;
\* and a task window is opened only for the user such a login has just set.
C4_AuthSafety ==
    [][/\ \A raw \in UsernameInputs, password \in PasswordInputs, yes \in BOOLEAN :
            (login(raw, password, yes) /\ current_user' # None) =>
              /\ current_user' = Strip(raw)
              /\ Strip(raw) \in DOMAIN users
              /\ users[Strip(raw)].password = hash_password(password)
       /\ (current_user' # None /\ current_user' # current_user) =>
            \E raw \in UsernameInputs, password \in PasswordInputs, yes \in BOOLEAN :
              login(raw, password, yes)
       /\ (\/ last'.op \in {"register", "toggle_mode"}
           \/ last'.op = "login" /\ last'.msg # "Welcome") => current_user' = None
       /\ (username' # None /\ username' # username) =>
            /\ username' = current_user
            /\ last.op = "login"
            /\ last.msg = "Welcome"]_vars

\* The task window is open for the second of two registered users.
C4_Witness ==
    /\ pc = "app"
    /\ username = <<"b", "o", "b">>
    /\ Cardinality(DOMAIN users) = 2

\* The signup rules in their order, each with the error it is reported by.
SignupRules(uname, password, confirm, us) ==
    << [broken |-> uname = <<>>, msg |-> "Please enter username!"],
       [broken |-> Len(uname) < 3, msg |-> "Username must be at least 3 characters!"],
       [broken |-> password = <<>>, msg |-> "Please enter password!"],
       [broken |-> Len(password) < 4, msg |-> "Password must be at least 4 characters!"],
       [broken |-> confirm = <<>>, msg |-> "Please confirm your password!"],
       [broken |-> password # confirm, msg |-> "Passwords do not match!"],
       [broken |-> uname \in DOMAIN us, msg |-> "Username already exists!"] >>

FirstBroken(rules) ==
    LET broken == {i \in 1..Len(rules) : rules[i].broken}
    IN IF broken = {} THEN 0 ELSE CHOOSE i \in broken : \A j \in broken : i <= j

\* A username without its leading and trailing blanks, the blanks counted.
Trimmed(raw) ==
    LET solid == {i \in 1..Len(raw) : raw[i] # " "}
    IN IF solid = {} THEN <<>>
       ELSE LET lo == CHOOSE i \in solid : \A j \in solid : i <= j
                hi == CHOOSE i \in solid : \A j \in solid : j <= i
            IN SubSeq(raw, lo, hi)

\* The outcome of the write the step made ("ok" when it made none, where the
\* handlers do not look at it).
WriteSeen == IF last'.wrote = "none" THEN "ok" ELSE last'.wrote

\* C5: signup reports the error of the first rule, in the fixed order, that the
\* input breaks, and creates the account exactly when no rule is broken.
C5_SignupOrder ==
    [][\A raw \in UsernameInputs, password \in PasswordInputs, confirm \in PasswordInputs,
          now \in Timestamps :
         register(raw, password, confirm, now, WriteSeen) =>
           LET rules == SignupRules(Trimmed(raw), password, confirm, users)
               first == FirstBroken(rules)
           IN /\ first # 0 => last'.msg = rules[first].msg /\ users' = users
              /\ first = 0 => /\ last'.msg = "Account created!"
                              /\ Trimmed(raw) \in DOMAIN users'
                              /\ Trimmed(raw) \notin DOMAIN users]_vars

\* A signup got as far as the last rule: the username was already taken.
C5_Witness ==
    /\ last.op = "register"
    /\ last.msg = "Username already exists!"

\* What a signup that passes every rule does to everything but the file.
SignupEffect(uname, password) ==
    /\ uname \notin DOMAIN users
    /\ DOMAIN users' = DOMAIN users \cup {uname}
    /\ \A u \in DOMAIN users : users'[u] = users[u]
    /\ users'[uname].password = hash_password(password)
    /\ current_user' = None
    /\ ~is_signup'
    /\ LoginOutcome(uname, password, users') = "Welcome"

\* C6 as claimed: a successful signup adds exactly one account with the hash
\* of the password, persists the store, does not log in, leaves login mode on,
\* and a login with the same username and password then succeeds.
C6_SignupPersists ==
    [][\A raw \in UsernameInputs, password \in PasswordInputs, now \in Timestamps :
         (register(raw, password, password, now, WriteSeen)
            /\ last'.msg = "Account created!") =>
           /\ SignupEffect(Trimmed(raw), password)
           /\ usersFile' = [cond |-> "ok", data |-> users']]_vars

\* C6 as amended: the same, except that the store is written to the file and
\* the file holds the store only if that write succeeds; if it fails the
\* account is kept in memory and the file is left as the failed write left it.
C6_SignupWrites ==
    [][\A raw \in UsernameInputs, password \in PasswordInputs, now \in Timestamps :
         (register(raw, password, password, now, WriteSeen)
            /\ last'.msg = "Account created!") =>
           /\ SignupEffect(Trimmed(raw), password)
           /\ last'.wrote # "none"
           /\ last'.wrote = "ok" => usersFile' = [cond |-> "ok", data |-> users']
           /\ last'.wrote = "fail_open" => usersFile' = usersFile
           /\ last'.wrote = "fail_partial" => usersFile'.cond = "corrupt"]_vars

\* A second account has just been created and written.
C6_Witness ==
    /\ last.op = "register"
    /\ last.msg = "Account created!"
    /\ last.wrote = "ok"
    /\ Cardinality(DOMAIN users) = 2
    /\ ~is_signup

\* C7: login, signup and mode toggle never remove an account from the
\* credential store nor change its password hash or created_at.
C7_AccountsKept ==
    [][last'.op \in {"login", "register", "toggle_mode"} =>
         \A u \in DOMAIN users : u \in DOMAIN users' /\ users'[u] = users[u]]_vars

\* A signup for a username already present has just been refused.
C7_Witness ==
    /\ last.op = "register"
    /\ last.msg = "Username already exists!"
    /\ users # <<>>

\* C8: saving an edit with a name that does not trim to empty changes only the
\* name of the task the dialog was opened for, which is the task whose id was
\* selected.
C8_EditFrame ==
    [][/\ \A sel \in SUBSET (1..MaxTasks) :
            (edit_task(sel) /\ pc' = "edit") =>
              /\ edit_idx' \in 1..Len(tasks)
              /\ tasks[edit_idx'].id = SelectedRows(tree, sel, 1)[1].id
       /\ \A raw \in NameInputs :
            (save_edit(raw, WriteSeen) /\ (\E i \in 1..Len(raw) : raw[i] # " ")) =>
              /\ Len(tasks') = Len(tasks)
              /\ \A i \in 1..Len(tasks) :
                   /\ tasks'[i].id = tasks[i].id
                   /\ tasks'[i].status = tasks[i].status
                   /\ tasks'[i].created_at = tasks[i].created_at
                   /\ i # edit_idx => tasks'[i].name = tasks[i].name]_vars

\* An edit of a task that is not the first one has just been saved.
C8_Witness ==
    /\ last.op = "save_edit"
    /\ last.msg = "Task updated successfully!"
    /\ Len(tasks) >= 2
    /\ tasks[1].name # tasks[2].name

\* The task a status handler acts on for a selection: the first with the id
\* of the first selected row.
Target(sel) ==
    LET task_id == SelectedRows(tree, sel, 1)[1].id
    IN {i \in 1..Len(tasks) : tasks[i].id = task_id /\ \A j \in 1..(i - 1) : tasks[j].id # task_id}

\* C9: mark_done on a task already Done, and mark_pending on a task already
\* Pending, shows the "already" notice, changes no task and writes nothing.
C9_NoOp ==
    [][\A sel \in SUBSET (1..MaxTasks) \ {{}} :
         /\ (mark_task_done(sel, WriteSeen)
               /\ \E i \in Target(sel) : tasks[i].status = "Done") =>
              /\ last'.msg = "Task is already marked as done!"
              /\ last'.wrote = "none"
              /\ UNCHANGED <<tasks, taskFiles>>
         /\ (mark_task_pending(sel, WriteSeen)
               /\ \E i \in Target(sel) : tasks[i].status = "Not Done") =>
              /\ last'.msg = "Task is already marked as pending!"
              /\ last'.wrote = "none"
              /\ UNCHANGED <<tasks, taskFiles>>]_vars

\* mark_done has just been run on a task that was Done already.
C9_Witness ==
    /\ last.op = "mark_task_done"
    /\ last.msg = "Task is already marked as done!"

OnlyStatus(i, st) ==
    /\ Len(tasks') = Len(tasks)
    /\ tasks'[i].status = st
    /\ tasks'[i].id = tasks[i].id
    /\ tasks'[i].name = tasks[i].name
    /\ tasks'[i].created_at = tasks[i].created_at
    /\ \A k \in 1..Len(tasks) : k # i => tasks'[k] = tasks[k]

\* C11: mark_done on a Pending task changes its status to Done and nothing
\* else, and mark_pending on a Done task changes its status back to Pending
\* and nothing else, so the two in a row give back the task sequence as it
\* was; and no other operation changes the status of a task that stays.
C11_RoundTrip ==
    [][/\ \A sel \in SUBSET (1..MaxTasks) \ {{}} :
            /\ (mark_task_done(sel, WriteSeen)
                  /\ \E i \in Target(sel) : tasks[i].status = "Not Done") =>
                 \A i \in Target(sel) :
                    /\ OnlyStatus(i, "Done")
                    /\ [tasks' EXCEPT ![i].status = "Not Done"] = tasks
            /\ (mark_task_pending(sel, WriteSeen)
                  /\ \E i \in Target(sel) : tasks[i].status = "Done") =>
                 \A i \in Target(sel) :
                    /\ OnlyStatus(i, "Not Done")
                    /\ [tasks' EXCEPT ![i].status = "Done"] = tasks
       /\ last'.op \notin {"mark_task_done", "mark_task_pending", "delete_task"} =>
            \A k \in 1..Len(tasks) : k <= Len(tasks') => tasks'[k].status = tasks[k].status
       /\ \A sel \in SUBSET (1..MaxTasks) :
            (delete_task(sel, TRUE, WriteSeen) /\ last'.msg = "Deleted") =>
              LET keep == Kept(tasks, SelectedIds(sel)) IN
              \A k \in keep :
                 tasks'[Cardinality({i \in keep : i <= k})].status = tasks[k].status]_vars

\* A task that had been marked done has just been marked pending again, next
\* to another task that is still done.
C11_Witness ==
    /\ last.op = "mark_task_pending"
    /\ last.msg = "marked as pending!"
    /\ \E i, k \in 1..Len(tasks) : tasks[i].status = "Not Done" /\ tasks[k].status = "Done"

\* The ids of the rows shown under a filter.
ShownIds(flt) ==
    LET rows == refresh_task_list(tasks, flt) IN {rows[a].id : a \in 1..Len(rows)}

\* The rows shown under a filter follow the order of the task sequence.
InSequenceOrder(flt) ==
    LET rows == refresh_task_list(tasks, flt) IN
    \A a, b \in 1..Len(rows) :
       a < b => \E i, k \in 1..Len(tasks) :
                   i < k /\ tasks[i].id = rows[a].id /\ tasks[k].id = rows[b].id

\* C12: the ids shown by the Done filter and the ids shown by the Pending
\* filter are disjoint, together they are the ids shown without a filter, and
\* each of the three views is in the order of the task sequence.
C12_FiltersPartition ==
    /\ ShownIds("Done") \cap ShownIds("Not Done") = {}
    /\ ShownIds("Done") \cup ShownIds("Not Done") = ShownIds(NoFilter)
    /\ ShownIds(NoFilter) = {tasks[i].id : i \in 1..Len(tasks)}
    /\ Cardinality(ShownIds(NoFilter)) = Len(tasks)
    /\ \A flt \in {"Done", "Not Done", NoFilter} : InSequenceOrder(flt)

\* The Done filter is on and shows some of the tasks, the others being pending.
C12_Witness ==
    /\ pc = "app"
    /\ current_filter = "Done"
    /\ tree # <<>>
    /\ Len(tree) < Len(tasks)
    /\ ShownIds("Not Done") # {}

\* C13: the statistics label always shows total = number of tasks, completed =
\* number of Done tasks, pending = number of Pending tasks, with completed +
\* pending = total, and a completion rate of 0 without tasks and of
\* completed / total * 100 (to the printed tenth of a percent) otherwise.
C13_Statistics ==
    pc \in {"app", "edit"} =>
       /\ stats = update_statistics(tasks)
       /\ stats.total = Len(tasks)
       /\ stats.completed = Cardinality({i \in 1..Len(tasks) : tasks[i].status = "Done"})
       /\ stats.pending = Cardinality({i \in 1..Len(tasks) : tasks[i].status = "Not Done"})
       /\ stats.completed + stats.pending = stats.total
       /\ stats.total = 0 => stats.completion_rate = 0
       /\ stats.total > 0 =>
            /\ 2 * (stats.completion_rate * stats.total - stats.completed * 1000) <= stats.total
            /\ 2 * (stats.completed * 1000 - stats.completion_rate * stats.total) <= stats.total

\* The label shows one task of three completed: 33.3 %.
C13_Witness ==
    /\ pc = "app"
    /\ stats.total = 3
    /\ stats.completed = 1
    /\ stats.pending = 2
    /\ stats.completion_rate = 333

\* The handlers that change the task sequence, and what they show when done.
Mutators == {"add_task", "save_edit", "mark_task_done", "mark_task_pending", "delete_task"}

Completed ==
    {"added successfully!", "Task updated successfully!", "marked as done!",
     "marked as pending!", "Deleted"}

\* The file of the logged-in user holds exactly this sequence.
Persisted(file, ts) == file = [cond |-> "ok", data |-> ts]

\* C14: as long as no write has failed, every completed add, edit, status
\* change and delete has written the file (none is batched), and the file of
\* the logged-in user holds the in-memory task sequence whenever a handler of
\* the task window returns.
C14_WriteThrough ==
    [][/\ (last'.op \in Mutators /\ last'.msg \in Completed) => last'.wrote # "none"
       /\ (last'.op \in Mutators /\ tasks' # tasks) => last'.wrote # "none"
       /\ (faults' = 0 /\ last'.op \in Mutators /\ last'.msg \in Completed) =>
            Persisted(taskFiles'[username'], tasks')
       /\ (faults' = 0 /\ pc' \in {"app", "edit"}) =>
            \/ Persisted(taskFiles'[username'], tasks')
            \/ tasks' = <<>> /\ taskFiles'[username'] = NoFile("absent")]_vars

\* A delete has just been written: the file holds the renumbered survivors.
C14_Witness ==
    /\ last.op = "delete_task"
    /\ last.msg = "Deleted"
    /\ last.wrote = "ok"
    /\ faults = 0
    /\ tasks # <<>>
    /\ Persisted(taskFiles[username], tasks)

\* What a handler whose write failed has done in memory, and to the file.
FailedWriteKept ==
    /\ last'.msg \in Completed
    /\ tree' = refresh_task_list(tasks', current_filter')
    /\ last'.op = "add_task" =>
         /\ Len(tasks') = Len(tasks) + 1
         /\ \A i \in 1..Len(tasks) : tasks'[i] = tasks[i]
    /\ last'.op = "save_edit" =>
         \E raw \in NameInputs :
            /\ Trimmed(raw) # <<>>
            /\ tasks' = [tasks EXCEPT ![edit_idx].name = Trimmed(raw)]
    /\ last'.op = "mark_task_done" =>
         \E i \in 1..Len(tasks) :
            tasks[i].status = "Not Done" /\ tasks' = [tasks EXCEPT ![i].status = "Done"]
    /\ last'.op = "mark_task_pending" =>
         \E i \in 1..Len(tasks) :
            tasks[i].status = "Done" /\ tasks' = [tasks EXCEPT ![i].status = "Not Done"]
    /\ last'.op = "delete_task" => Len(tasks') < Len(tasks)
    /\ last'.wrote = "fail_open" => taskFiles' = taskFiles
    /\ last'.wrote = "fail_partial" => taskFiles'[username] = NoFile("corrupt")

\* The next save that succeeds puts the in-memory sequence in the file.
SaveHeals ==
    /\ (last'.op \in Mutators /\ last'.wrote = "ok") => Persisted(taskFiles'[username], tasks')
    /\ (last'.op = "logout" /\ last'.wrote = "ok") => Persisted(taskFiles'[username], tasks)

\* C15 as claimed: a task handler whose write fails keeps what it did in
\* memory, so that the in-memory sequence and the file differ, until the next
\* save that succeeds makes them equal again.
C15_FailedWriteDiffers ==
    [][/\ (last'.op \in Mutators /\ last'.wrote \in {"fail_open", "fail_partial"}) =>
            /\ FailedWriteKept
            /\ ~Persisted(taskFiles'[username], tasks')
       /\ SaveHeals]_vars

\* C15 as amended: a task handler whose write fails keeps what it did in
\* memory and leaves the file as the failed write left it (untouched when it
\* could not be opened, unparsable when the dump broke off), so that the two
\* may differ; the next save that succeeds makes them equal again.
C15_FailedWriteKept ==
    [][/\ (last'.op \in Mutators /\ last'.wrote \in {"fail_open", "fail_partial"}) =>
            FailedWriteKept
       /\ SaveHeals]_vars

\* A task has been marked done in memory while the write broke off.
C15_Witness ==
    /\ last.op = "mark_task_done"
    /\ last.msg = "marked as done!"
    /\ last.wrote = "fail_partial"
    /\ \E i \in 1..Len(tasks) : tasks[i].status = "Done"
    /\ ~Persisted(taskFiles[username], tasks)

\* C16 as claimed: whatever the condition of the user's task file, the start
\* of the task window after a login completes, with the sequence the file
\* holds when it is well-formed and with the empty sequence otherwise.
C16_LoadNeverFails ==
    [][(main /\ current_user # None) =>
         LET file == taskFiles[current_user] IN
         /\ pc' = "app"
         /\ username' = current_user
         /\ file.cond = "ok" => tasks' = file.data
         /\ file.cond \in {"absent", "unreadable", "corrupt"} => tasks' = <<>>
         /\ Len(tree') = Len(tasks')]_vars

Matching(flt) == {i \in 1..Len(tasks) : flt = NoFilter \/ tasks[i].status = flt}

\* The rows shown are the tasks the active filter lets through, in sequence
\* order, each with the id, status, name and time the task has now.
ViewConsistent ==
    LET shown == Matching(current_filter) IN
    /\ Len(tree) = Cardinality(shown)
    /\ \A i \in shown :
          LET row == tree[Cardinality({k \in shown : k <= i})] IN
          /\ row.id = tasks[i].id
          /\ row.status = (IF tasks[i].status = "Done" THEN "Done" ELSE "Pending")
          /\ row.name = ConvertStringval(tasks[i].name)
          /\ row.created_at = tasks[i].created_at

\* C19: after every operation of the task window the rows shown are the tasks
\* the active filter lets through, in order and with their current ids; so the
\* id of every row is the id of a task, no handler ends in "not found", a
\* status handler given a selection always finds its task, and a delete
\* removes as many tasks as it reports.
C19_ViewConsistent ==
    [][/\ pc' \in {"app", "edit"} =>
            /\ ViewConsistent'
            /\ \A a \in 1..Len(tree') : \E i \in 1..Len(tasks') : tasks'[i].id = tree'[a].id
       /\ last'.msg # "Task not found!"
       /\ last'.op \in {"mark_task_done", "mark_task_pending"} => last'.msg # ""
       /\ (last'.op = "delete_task" /\ last'.msg = "Deleted") =>
            /\ last'.count >= 1
            /\ last'.count = Len(tasks) - Len(tasks')]_vars

\* A delete has just renumbered the tasks while the Done filter was on, and
\* some of the tasks left are shown and some are not.
C19_Witness ==
    /\ last.op = "delete_task"
    /\ last.msg = "Deleted"
    /\ current_filter = "Done"
    /\ tree # <<>>
    /\ Len(tree) < Len(tasks)
    /\ tree[1].id = 2

\* Neither the tasks, nor the accounts, nor either file is touched, and no
\* write is made.
NoMutation ==
    /\ UNCHANGED <<tasks, users, usersFile, taskFiles, faults>>
    /\ last'.wrote = "none"

\* C18: an add or an edit with a name that trims to empty, a login with an
\* empty field and a signup that breaks any of its rules each report their
\* error and leave the tasks, the accounts and both files as they were,
\* without any write.
C18_ValidationMutatesNothing ==
    [][/\ last'.op = "add_task" =>
            \A raw \in NameInputs, now \in Timestamps :
               (add_task(raw, now, WriteSeen) /\ Trimmed(raw) = <<>>) =>
                  /\ NoMutation
                  /\ last'.msg = "Please enter a task name!"
       /\ last'.op = "save_edit" =>
            \A raw \in NameInputs :
               (save_edit(raw, WriteSeen) /\ Trimmed(raw) = <<>>) =>
                  /\ NoMutation
                  /\ last'.msg = "Task name cannot be empty!"
       /\ last'.op = "login" =>
            \A raw \in LoneUserInputs, password \in LonePasswords, yes \in BOOLEAN :
               (login(raw, password, yes) /\ (Trimmed(raw) = <<>> \/ password = <<>>)) =>
                  /\ NoMutation
                  /\ last'.msg = "Please enter both username and password!"
                  /\ current_user' = None
       /\ last'.op = "register" =>
            \A raw \in LoneUserInputs, password \in LonePasswords, confirm \in LonePasswords,
               now \in Timestamps :
               (register(raw, password, confirm, now, WriteSeen)
                  /\ FirstBroken(SignupRules(Trimmed(raw), password, confirm, users)) # 0) =>
                  /\ NoMutation
                  /\ last'.msg # "Account created!"]_vars

\* The edit dialog has just refused a blank name and stays open on a task
\* that is in the file.
C18_Witness ==
    /\ last.op = "save_edit"
    /\ last.msg = "Task name cannot be empty!"
    /\ pc = "edit"
    /\ users # <<>>
    /\ tasks # <<>>
    /\ Persisted(taskFiles[username], tasks)

====
